---- MODULE Spec2Model ----
(***************************************************************************)
(* The debate controller of src/main.py together with the Transcript      *)
(* (src/Transcript.py) and the participants (src/Agent.py).                *)
(*                                                                         *)
(* A text is a sequence of tokens.  The characters typed by the operator   *)
(* and returned by the completion endpoint are single-character tokens;    *)
(* the literals of the program are one token each.                         *)
(***************************************************************************)
EXTENDS Integers, Sequences, FiniteSets, TLC

VARIABLES
    pc,          \* the statement of the __main__ script that runs next
    agent,       \* pro_agent, con_agent, moderator: name, side, messages
    topic,       \* the debate topic typed at start-up
    messages,    \* Transcript.messages
    responses,   \* Agent.responses of each participant
    calls,       \* the requests received by the completion endpoint
    moderation,  \* the script's variable `moderation` (last operator input)
    now,         \* the next reading of datetime.now(), in clock ticks
    stdout,      \* the last text the script printed
    file,        \* the content of transcript.txt
    raised,      \* the uncaught exception, if any, and where it was raised
    topics,      \* number of topic rounds started
    rebuttals    \* number of rebuttal rounds started

vars == <<pc, agent, topic, messages, responses, calls, moderation, now,
          stdout, file, raised, topics, rebuttals>>

(***************************************************************************)
(* Bounds of the model.                                                    *)
(***************************************************************************)
MaxRounds == 2        \* topic rounds and rebuttal rounds of a run, together
MaxBreaks == 1        \* line breaks the completion endpoint returns in a run
TicksPerSecond == 2   \* readings of the clock within one second

NL == "\n"
TAB == "\t"

\* What the operator may type at a prompt.
Inputs == {<<"q">>, <<"Q">>, <<"n">>, <<"N">>, <<"y">>, <<>>}

\* What the completion endpoint may return as message content.
Completions == {<<"a">>, <<"a", NL, "b">>}

RECURSIVE Breaks(_)
Breaks(s) == IF s = <<>> THEN 0
             ELSE (IF Head(s) = NL THEN 1 ELSE 0) + Breaks(Tail(s))

RECURSIVE BreaksOfAll(_)
BreaksOfAll(ss) == IF ss = <<>> THEN 0
                   ELSE Breaks(Head(ss)) + BreaksOfAll(Tail(ss))

\* The profiles the operator may select for the two sides.
ProProfiles == {[name |-> "Sarah", persona |-> "A methodical professor"]}
ConProfiles == {[name |-> "Dave", persona |-> "A quick on his feet lawyer"]}

TopicTexts == {<<"X">>}

Agents == {"pro_agent", "con_agent", "moderator"}

NoFile == <<"<no file>">>
NoError == [at |-> "none", error |-> "none"]

(***************************************************************************)
(* Literals of the program.                                                *)
(***************************************************************************)
TopicsPrompt == <<"Give the moderator a list of what you would like to talk about in the debate.">>
OpeningPrompt == <<"Make your opening argument to the moderator's prompt.">>
RebuttalPrompt == <<"Rebuttal.">>
ClosingPrompt == <<"Closing statement.">>
ClosingRequest == <<"Thank you both for your participation in this debate. Now, please give your closing statements.">>

EQ40 == "========================================"
DASH40 == "----------------------------------------"
EndMarker == "[END OF DEBATE]"

(***************************************************************************)
(* str.lower() on the characters the operator can type.                    *)
(***************************************************************************)
LowerChar(c) == CASE c = "Q" -> "q" [] c = "N" -> "n" [] c = "Y" -> "y" [] OTHER -> c

Lower_none(s) == s

Lower(s) == [i \in DOMAIN s |-> LowerChar(s[i])]

(***************************************************************************)
(* Agent.__init__, Debater.__init__, Moderator.__init__                    *)
(***************************************************************************)
System(content) == [role |-> "system", content |-> content]

AgentInit(name, persona, t) ==
    [name |-> name, persona |-> persona, topic |-> t,
     messages |-> <<System(<<"Your name is ", name, ". You are ", persona, ".">>),
                    System(<<"Your responses should mimic real human conversation.  No headings or bullet points, just natural flowing text that aligns with your persona.">>),
                    System(<<"The topic of discussion is: ">> \o t \o <<".">>),
                    System(<<"Try not to repeat yourself or use similar phrases over and over again. Keep it fresh and engaging.">>)>>]

DebaterInit(name, persona, t, side) ==
    LET base == AgentInit(name, persona, t)
    IN [name |-> base.name, persona |-> base.persona, topic |-> base.topic,
        side |-> side,
        messages |-> base.messages \o
            <<System(<<"You are on the ", side, " side of the argument.  You should always argue in favor of your side.">>),
              System(<<"Try to keep your responses to a maximum of 250 words.">>)>>]

ModeratorInit(name, persona, t) ==
    LET base == AgentInit(name, persona, t)
    IN [name |-> base.name, persona |-> base.persona, topic |-> base.topic,
        side |-> "Moderator", messages |-> base.messages]

(***************************************************************************)
(* Agent.ask: the request sent, and the text returned.                     *)
(***************************************************************************)
Request(a, related_text, meta_prompt) ==
    [agent |-> a,
     messages |-> agent[a].messages \o
                  <<[role |-> "assistant", content |-> related_text],
                    [role |-> "user", content |-> meta_prompt]>>]

\* str.replace("\n", "\n\t")
RECURSIVE IndentParagraphs(_)
IndentParagraphs(s) ==
    IF s = <<>> THEN <<>>
    ELSE (IF Head(s) = NL THEN <<NL, TAB>> ELSE <<Head(s)>>)
         \o IndentParagraphs(Tail(s))

\* The completion text is returned as it came, whatever the option says.
AskResult_raw(content, indent_paragraphs) == content

AskResult(content, indent_paragraphs) ==
    IF indent_paragraphs THEN IndentParagraphs(content) ELSE content

(***************************************************************************)
(* Transcript                                                              *)
(***************************************************************************)
add_message_front(msgs, a, message, t) ==
    <<[timestamp |-> t, agent |-> a, message |-> message]>> \o msgs

add_message(msgs, a, message, t) ==
    Append(msgs, [timestamp |-> t, agent |-> a, message |-> message])

\* datetime.strftime("%Y-%m-%d %H:%M:%S"): the reading cut to whole seconds
Strftime(t) == "2026-11-06 10:00:" \o ToString(t \div TicksPerSecond)

EntryHeader(entry) ==
    <<"[", Strftime(entry.timestamp), "] ", agent[entry.agent].name, " (",
      agent[entry.agent].side, "):\n\t">> \o entry.message

\* The blocks are put together newest first.
RECURSIVE Blocks_reversed(_)
Blocks_reversed(msgs) ==
    IF msgs = <<>> THEN <<>>
    ELSE Blocks_reversed(Tail(msgs)) \o
         EntryHeader(Head(msgs)) \o <<"\n", DASH40, "\n\n">>

RECURSIVE Blocks(_)
Blocks(msgs) ==
    IF msgs = <<>> THEN <<>>
    ELSE EntryHeader(Head(msgs)) \o <<"\n", DASH40, "\n\n">> \o Blocks(Tail(msgs))

Banner(t, pro, con) ==
    <<"[TRANSCRIPT OF DEBATE]\n\n", EQ40, "\n", "Topic: ">> \o t \o
    <<"\n", "Pro: ", agent[pro].name, "  |  Con: ", agent[con].name, "\n",
      EQ40, "\n\n">>

\* The end marker is added whatever `final` is.
print_transcript_marked(msgs, t, pro, con, final) ==
    Banner(t, pro, con) \o Blocks(msgs) \o <<EQ40, "\n\n", EndMarker>>

print_transcript(msgs, t, pro, con, final) ==
    Banner(t, pro, con) \o Blocks(msgs) \o
    (IF final THEN <<EQ40, "\n\n", EndMarker>> ELSE <<>>)

\* The last entry is formatted as the transcript formats it, divider included.
print_last_message_divider(msgs) ==
    IF msgs = <<>> THEN <<>>
    ELSE EntryHeader(msgs[Len(msgs)]) \o <<"\n", DASH40, "\n\n">>

\* The oldest entry is taken for the most recent one.
print_last_message_first(msgs) ==
    IF msgs = <<>> THEN <<>>
    ELSE EntryHeader(msgs[1]) \o <<"\n\n">>

print_last_message(msgs) ==
    IF msgs = <<>> THEN <<>>
    ELSE EntryHeader(msgs[Len(msgs)]) \o <<"\n\n">>

(***************************************************************************)
(* The __main__ script.                                                    *)
(***************************************************************************)
Init ==
    /\ pc = "setup_pro"
    /\ topic \in TopicTexts
    /\ \E p \in ProProfiles, c \in ConProfiles :
         agent = [a \in Agents |->
                    CASE a = "pro_agent" -> DebaterInit(p.name, p.persona, topic, "Pro")
                      [] a = "con_agent" -> DebaterInit(c.name, c.persona, topic, "Con")
                      [] OTHER -> ModeratorInit("User", "The User", topic)]
    /\ messages = <<>>
    /\ responses = [a \in Agents |-> <<>>]
    /\ calls = <<>>
    /\ moderation = <<>>
    /\ now = 0
    /\ stdout = <<>>
    /\ file = NoFile
    /\ raised = NoError
    /\ topics = 0
    /\ rebuttals = 0

\* The contents the endpoint may return next, within the bound MaxBreaks.
Returned ==
    {c \in Completions :
        Breaks(c) + BreaksOfAll(responses["pro_agent"])
                  + BreaksOfAll(responses["con_agent"]) <= MaxBreaks}

\* A controller that renders the context before the previous turn's result
\* is in the transcript.
Context_stale ==
    print_transcript(SubSeq(messages, 1, Len(messages) - 1), topic,
                     "pro_agent", "con_agent", FALSE)

Context == print_transcript(messages, topic, "pro_agent", "con_agent", FALSE)

\* The topics a debater wants to cover are recorded in the transcript.
SetupAsk_recorded(at, a, next) ==
    /\ pc = at
    /\ \E content \in Returned :
         /\ calls' = Append(calls, Request(a, <<>>, TopicsPrompt))
         /\ responses' = [responses EXCEPT ![a] = Append(@, content)]
         /\ stdout' = AskResult(content, FALSE)
         /\ messages' = add_message(messages, a, AskResult(content, FALSE), now)
    /\ now' = now + 1
    /\ pc' = next
    /\ UNCHANGED <<agent, topic, moderation, file, raised, topics, rebuttals>>

\* The setup call leaves no record in the participant's responses.
SetupAsk_unrecorded(at, a, next) ==
    /\ pc = at
    /\ \E content \in Returned :
         /\ calls' = Append(calls, Request(a, <<>>, TopicsPrompt))
         /\ stdout' = AskResult(content, FALSE)
    /\ pc' = next
    /\ UNCHANGED <<agent, topic, messages, responses, moderation, now, file,
                   raised, topics, rebuttals>>

\* print(... agent.ask('', 'Give the moderator a list ...', indent_paragraphs=False))
SetupAsk(at, a, next) ==
    /\ pc = at
    /\ \E content \in Returned :
         /\ calls' = Append(calls, Request(a, <<>>, TopicsPrompt))
         /\ responses' = [responses EXCEPT ![a] = Append(@, content)]
         /\ stdout' = AskResult(content, FALSE)
    /\ pc' = next
    /\ UNCHANGED <<agent, topic, messages, moderation, now, file, raised,
                   topics, rebuttals>>

\* transcript.add_message(a, a.ask(transcript.print_transcript(...), prompt))
\* print(transcript.print_last_message())
Turn_unattributed(at, a, prompt, next) ==
    /\ pc = at
    /\ \E content \in Returned :
         /\ calls' = Append(calls, Request(a, Context, prompt))
         /\ responses' = [responses EXCEPT ![a] = Append(@, content)]
         /\ messages' = add_message(messages, "pro_agent",
                                    AskResult(content, TRUE), now)
    /\ now' = now + 1
    /\ stdout' = print_last_message(messages')
    /\ pc' = next
    /\ UNCHANGED <<agent, topic, moderation, file, raised, topics, rebuttals>>

Turn(at, a, prompt, next) ==
    /\ pc = at
    /\ \E content \in Returned :
         /\ calls' = Append(calls, Request(a, Context, prompt))
         /\ responses' = [responses EXCEPT ![a] = Append(@, content)]
         /\ messages' = add_message(messages, a, AskResult(content, TRUE), now)
    /\ now' = now + 1
    /\ stdout' = print_last_message(messages')
    /\ pc' = next
    /\ UNCHANGED <<agent, topic, moderation, file, raised, topics, rebuttals>>

SetupPro == SetupAsk("setup_pro", "pro_agent", "setup_con")

SetupCon == SetupAsk("setup_con", "con_agent", "introduction")

\* moderation = input(...); transcript.add_message(moderator, moderation)
Introduction ==
    /\ pc = "introduction"
    /\ \E text \in Inputs :
         /\ moderation' = text
         /\ messages' = add_message(messages, "moderator", text, now)
    /\ now' = now + 1
    /\ pc' = "moderator_prompt"
    /\ UNCHANGED <<agent, topic, responses, calls, stdout, file, raised,
                   topics, rebuttals>>

\* The instruction is appended before it is compared with the sentinel.
ModeratorPrompt_appendFirst ==
    /\ pc = "moderator_prompt"
    /\ \E text \in Inputs :
         /\ moderation' = text
         /\ messages' = add_message(messages, "moderator", text, now)
         /\ now' = now + 1
         /\ IF Lower(text) = <<"q">>
            THEN /\ pc' = "closing"
                 /\ UNCHANGED topics
            ELSE /\ topics + rebuttals < MaxRounds
                 /\ topics' = topics + 1
                 /\ pc' = "pro_opening"
    /\ UNCHANGED <<agent, topic, responses, calls, stdout, file, raised,
                   rebuttals>>

\* The quit sentinel is an instruction like any other: the loop has no exit.
ModeratorPrompt_noQuit ==
    /\ pc = "moderator_prompt"
    /\ \E text \in Inputs :
         /\ moderation' = text
         /\ topics + rebuttals < MaxRounds
         /\ messages' = add_message(messages, "moderator", text, now)
         /\ now' = now + 1
         /\ topics' = topics + 1
         /\ pc' = "pro_opening"
    /\ UNCHANGED <<agent, topic, responses, calls, stdout, file, raised,
                   rebuttals>>

\* moderation = input(...); if moderation.lower() == 'q': break
\* transcript.add_message(moderator, moderation)
ModeratorPrompt ==
    /\ pc = "moderator_prompt"
    /\ \E text \in Inputs :
         /\ moderation' = text
         /\ IF Lower(text) = <<"q">>
            THEN /\ pc' = "closing"
                 /\ UNCHANGED <<messages, now, topics>>
            ELSE /\ topics + rebuttals < MaxRounds
                 /\ messages' = add_message(messages, "moderator", text, now)
                 /\ now' = now + 1
                 /\ topics' = topics + 1
                 /\ pc' = "pro_opening"
    /\ UNCHANGED <<agent, topic, responses, calls, stdout, file, raised,
                   rebuttals>>

ProOpening == Turn("pro_opening", "pro_agent", OpeningPrompt, "con_opening")

ConOpening == Turn("con_opening", "con_agent", OpeningPrompt, "rebuttal_prompt")

\* The quit sentinel is honoured at the rebuttal prompt too.
RebuttalDecision_quitSentinel ==
    /\ pc = "rebuttal_prompt"
    /\ \E text \in Inputs :
         /\ moderation' = text
         /\ IF Lower(text) = <<"n">>
            THEN /\ pc' = "moderator_prompt"
                 /\ UNCHANGED rebuttals
            ELSE IF Lower(text) = <<"q">>
            THEN /\ pc' = "closing"
                 /\ UNCHANGED rebuttals
            ELSE /\ topics + rebuttals < MaxRounds
                 /\ rebuttals' = rebuttals + 1
                 /\ pc' = "pro_rebuttal"
    /\ UNCHANGED <<agent, topic, messages, responses, calls, now, stdout,
                   file, raised, topics>>

\* The answer is compared with 'n' as typed.
RebuttalDecision_caseSensitive ==
    /\ pc = "rebuttal_prompt"
    /\ \E text \in Inputs :
         /\ moderation' = text
         /\ IF text = <<"n">>
            THEN /\ pc' = "moderator_prompt"
                 /\ UNCHANGED rebuttals
            ELSE /\ topics + rebuttals < MaxRounds
                 /\ rebuttals' = rebuttals + 1
                 /\ pc' = "pro_rebuttal"
    /\ UNCHANGED <<agent, topic, messages, responses, calls, now, stdout,
                   file, raised, topics>>

\* moderation = input(...); if moderation.lower() == 'n': break
RebuttalDecision ==
    /\ pc = "rebuttal_prompt"
    /\ \E text \in Inputs :
         /\ moderation' = text
         /\ IF Lower(text) = <<"n">>
            THEN /\ pc' = "moderator_prompt"
                 /\ UNCHANGED rebuttals
            ELSE /\ topics + rebuttals < MaxRounds
                 /\ rebuttals' = rebuttals + 1
                 /\ pc' = "pro_rebuttal"
    /\ UNCHANGED <<agent, topic, messages, responses, calls, now, stdout,
                   file, raised, topics>>

ProRebuttal_opening ==
    Turn("pro_rebuttal", "pro_agent", OpeningPrompt, "con_rebuttal")

ProRebuttal == Turn("pro_rebuttal", "pro_agent", RebuttalPrompt, "con_rebuttal")

\* Con is not asked for its rebuttal.
ConRebuttal_silent ==
    /\ pc = "con_rebuttal"
    /\ pc' = "rebuttal_prompt"
    /\ UNCHANGED <<agent, topic, messages, responses, calls, moderation, now,
                   stdout, file, raised, topics, rebuttals>>

ConRebuttal == Turn("con_rebuttal", "con_agent", RebuttalPrompt, "rebuttal_prompt")

\* The closing statements are asked for without the moderator's request.
Closing_silent ==
    /\ pc = "closing"
    /\ pc' = "pro_closing"
    /\ UNCHANGED <<agent, topic, messages, responses, calls, moderation, now,
                   stdout, file, raised, topics, rebuttals>>

\* transcript.add_message(moderator, "Thank you both ...")
Closing ==
    /\ pc = "closing"
    /\ messages' = add_message(messages, "moderator", ClosingRequest, now)
    /\ now' = now + 1
    /\ pc' = "pro_closing"
    /\ UNCHANGED <<agent, topic, responses, calls, moderation, stdout, file,
                   raised, topics, rebuttals>>

ProClosing == Turn("pro_closing", "pro_agent", ClosingPrompt, "con_closing")

ConClosing == Turn("con_closing", "con_agent", ClosingPrompt, "save")

\* The export also runs right after the quit sentinel, before the closing.
SaveTranscript_early ==
    /\ pc \in {"closing", "save"}
    /\ file' = print_transcript(messages, topic, "pro_agent", "con_agent", TRUE)
    /\ stdout' = <<"\n\nFinal transcript has been saved">>
    /\ pc' = "done"
    /\ UNCHANGED <<agent, topic, messages, responses, calls, moderation, now,
                   raised, topics, rebuttals>>

\* transcript.save_transcript("transcript.txt", pro_agent, con_agent, topic)
\* print("\n\nFinal transcript has been saved")
SaveTranscript ==
    /\ pc = "save"
    /\ file' = print_transcript(messages, topic, "pro_agent", "con_agent", TRUE)
    /\ stdout' = <<"\n\nFinal transcript has been saved">>
    /\ pc' = "done"
    /\ UNCHANGED <<agent, topic, messages, responses, calls, moderation, now,
                   raised, topics, rebuttals>>

\* The statements that call Agent.ask, and the participant each one asks.
AskAt == [setup_pro |-> "pro_agent", setup_con |-> "con_agent",
          pro_opening |-> "pro_agent", con_opening |-> "con_agent",
          pro_rebuttal |-> "pro_agent", con_rebuttal |-> "con_agent",
          pro_closing |-> "pro_agent", con_closing |-> "con_agent"]

PromptAt == [setup_pro |-> TopicsPrompt, setup_con |-> TopicsPrompt,
             pro_opening |-> OpeningPrompt, con_opening |-> OpeningPrompt,
             pro_rebuttal |-> RebuttalPrompt, con_rebuttal |-> RebuttalPrompt,
             pro_closing |-> ClosingPrompt, con_closing |-> ClosingPrompt]

\* Where the script is after client.chat.completions.create raised at `at`:
\* nothing in __main__ catches the exception, so the process ends.
AfterCompletionError(at) == "crashed"

\* A failed call that leaves a partial entry behind.
CompletionError_partial ==
    /\ pc \in DOMAIN AskAt
    /\ calls' = Append(calls, Request(AskAt[pc],
                    IF pc \in {"setup_pro", "setup_con"} THEN <<>> ELSE Context,
                    PromptAt[pc]))
    /\ raised' = [at |-> pc, error |-> "OpenAIError"]
    /\ pc' = AfterCompletionError(pc)
    /\ messages' = add_message(messages, AskAt[pc], <<>>, now)
    /\ UNCHANGED <<agent, topic, responses, moderation, now, stdout,
                   file, topics, rebuttals>>

\* client.chat.completions.create raises: the exception leaves Agent.ask
\* before self.responses.append and leaves __main__ uncaught.
CompletionError ==
    /\ pc \in DOMAIN AskAt
    /\ calls' = Append(calls, Request(AskAt[pc],
                    IF pc \in {"setup_pro", "setup_con"} THEN <<>> ELSE Context,
                    PromptAt[pc]))
    /\ raised' = [at |-> pc, error |-> "OpenAIError"]
    /\ pc' = AfterCompletionError(pc)
    /\ UNCHANGED <<agent, topic, messages, responses, moderation, now, stdout,
                   file, topics, rebuttals>>

\* open(filename, 'w') or f.write raises: the file is untouched or truncated.
PersistenceError ==
    /\ pc = "save"
    /\ file' \in {file, <<>>}
    /\ raised' = [at |-> pc, error |-> "OSError"]
    /\ pc' = "crashed"
    /\ UNCHANGED <<agent, topic, messages, responses, calls, moderation, now,
                   stdout, topics, rebuttals>>

Next ==
    \/ SetupPro
    \/ SetupCon
    \/ Introduction
    \/ ModeratorPrompt
    \/ ProOpening
    \/ ConOpening
    \/ RebuttalDecision
    \/ ProRebuttal
    \/ ConRebuttal
    \/ Closing
    \/ ProClosing
    \/ ConClosing
    \/ SaveTranscript
    \/ CompletionError
    \/ PersistenceError

Spec == Init /\ [][Next]_vars

(***************************************************************************)
(* The same script run with debaters constructed for any stance, in any    *)
(* slot: Debater.__init__ stores the stance it is given, and nothing in    *)
(* __main__ or in the Transcript compares a participant's stance with the  *)
(* slot it is used in.                                                     *)
(***************************************************************************)
SlotSides == {<<"Pro", "Con">>, <<"Con", "Pro">>, <<"Judge", "Con">>}

ConfigInit ==
    /\ pc = "setup_pro"
    /\ topic \in TopicTexts
    /\ \E p \in ProProfiles, c \in ConProfiles, sides \in SlotSides :
         agent = [a \in Agents |->
                    CASE a = "pro_agent" -> DebaterInit(p.name, p.persona, topic, sides[1])
                      [] a = "con_agent" -> DebaterInit(c.name, c.persona, topic, sides[2])
                      [] OTHER -> ModeratorInit("User", "The User", topic)]
    /\ messages = <<>>
    /\ responses = [a \in Agents |-> <<>>]
    /\ calls = <<>>
    /\ moderation = <<>>
    /\ now = 0
    /\ stdout = <<>>
    /\ file = NoFile
    /\ raised = NoError
    /\ topics = 0
    /\ rebuttals = 0

ConfigSpec == ConfigInit /\ [][Next]_vars

(***************************************************************************)
(* The runs in which every completion call returns and the operator        *)
(* answers every prompt, in time "n" at a rebuttal prompt and "q" at the   *)
(* moderator prompt.  The statements of the script run one after the       *)
(* other; input() and the completion call block until they return.         *)
(***************************************************************************)
LiveNext ==
    \/ SetupPro
    \/ SetupCon
    \/ Introduction
    \/ ModeratorPrompt
    \/ ProOpening
    \/ ConOpening
    \/ RebuttalDecision
    \/ ProRebuttal
    \/ ConRebuttal
    \/ Closing
    \/ ProClosing
    \/ ConClosing
    \/ SaveTranscript
    \/ PersistenceError

\* if moderation.lower() == 'n': break
OperatorStopsRebuttals == RebuttalDecision /\ pc' = "moderator_prompt"

\* if moderation.lower() == 'q': break
OperatorQuits == ModeratorPrompt /\ pc' = "closing"

Fairness ==
    /\ WF_vars(LiveNext)
    /\ SF_vars(OperatorStopsRebuttals)
    /\ SF_vars(OperatorQuits)

LiveSpec == Init /\ [][LiveNext]_vars /\ Fairness

(***************************************************************************)
(* Reading a rendered transcript back: the blocks between the banner and   *)
(* the end, each closed by the divider line.                               *)
(***************************************************************************)
IndexOf(s, tok) ==
    IF \E i \in DOMAIN s : s[i] = tok
    THEN CHOOSE i \in DOMAIN s : s[i] = tok /\ \A j \in 1 .. i - 1 : s[j] # tok
    ELSE 0

Shown(entry) ==
    [time |-> Strftime(entry.timestamp), name |-> agent[entry.agent].name,
     side |-> agent[entry.agent].side, message |-> entry.message]

ParseBlock(b) ==
    [time |-> b[2], name |-> b[4], side |-> b[6],
     message |-> SubSeq(b, 8, Len(b) - 1)]

RECURSIVE ParseBlocks(_)
ParseBlocks(s) ==
    LET i == IndexOf(s, DASH40)
    IN IF i = 0 THEN <<>>
       ELSE <<ParseBlock(SubSeq(s, 1, i - 1))>> \o
            ParseBlocks(SubSeq(s, i + 2, Len(s)))

\* The entries shown by a rendered transcript, after its banner.
ParseEntries(text) ==
    LET afterTopic == SubSeq(text, IndexOf(text, "Pro: "), Len(text))
    IN ParseBlocks(SubSeq(afterTopic, IndexOf(afterTopic, EQ40) + 2,
                          Len(afterTopic)))

ShownEntries(msgs) == [i \in DOMAIN msgs |-> Shown(msgs[i])]

Last(s) == s[Len(s)]

RelatedText(request) == request.messages[Len(request.messages) - 1].content
MetaPrompt(request) == request.messages[Len(request.messages)].content

DebatePrompts == {OpeningPrompt, RebuttalPrompt, ClosingPrompt}
ProTurns == {"pro_opening", "pro_rebuttal", "pro_closing"}
ConTurns == {"con_opening", "con_rebuttal", "con_closing"}

IsDebaterEntry(entry) == agent[entry.agent].side \in {"Pro", "Con"}
IsProEntry(entry) == agent[entry.agent].side = "Pro"
IsConEntry(entry) == agent[entry.agent].side = "Con"

DebaterEntries == SelectSeq(messages, IsDebaterEntry)

\* A completion call failed in this step.
Fails == raised = NoError /\ raised'.error = "OpenAIError"

(***************************************************************************)
(* C1: in every reachable state the debater entries of the transcript,     *)
(* read in append order, alternate Pro, Con, Pro, Con, ... starting with   *)
(* Pro, and the number of Pro entries minus the number of Con entries is   *)
(* 0 or 1: Pro's utterance of a round is appended before Con's.            *)
(***************************************************************************)
C1_ProBeforeCon ==
    /\ \A i \in DOMAIN DebaterEntries :
          agent[DebaterEntries[i].agent].side =
             IF i % 2 = 1 THEN "Pro" ELSE "Con"
    /\ Len(SelectSeq(messages, IsProEntry))
         - Len(SelectSeq(messages, IsConEntry)) \in {0, 1}

C1_Witness ==
    /\ pc = "done"
    /\ topics >= 1
    /\ rebuttals >= 1
    /\ Len(DebaterEntries) = 6

(***************************************************************************)
(* C2: the context of every participant call of the debate rounds is the   *)
(* render of the whole transcript at the moment of the call.  Read back,   *)
(* the context of the latest call shows exactly the entries that precede   *)
(* the call's own result (all entries, when the call failed), in order;    *)
(* for a call to Con the last of them is Pro's result of the same round,   *)
(* the text Pro's previous call returned.                                  *)
(***************************************************************************)
LastCall == Last(calls)

\* The number of entries appended before the latest call was issued.
EntriesBeforeLastCall ==
    IF raised.error = "OpenAIError" THEN Len(messages)
    ELSE (CHOOSE i \in DOMAIN messages :
             /\ IsDebaterEntry(messages[i])
             /\ \A j \in i + 1 .. Len(messages) : ~IsDebaterEntry(messages[j])) - 1

C2_ContextIsWholeTranscript ==
    (calls # <<>> /\ MetaPrompt(LastCall) \in DebatePrompts) =>
        LET shown == ParseEntries(RelatedText(LastCall))
            n == EntriesBeforeLastCall
        IN /\ shown = ShownEntries(SubSeq(messages, 1, n))
           /\ n >= 1
           /\ LastCall.agent = "con_agent" =>
                 /\ messages[n].agent = "pro_agent"
                 /\ messages[n].message =
                       IndentParagraphs(Last(responses["pro_agent"]))
           /\ raised.error # "OpenAIError" =>
                 messages[n + 1].agent = LastCall.agent

C2_Witness ==
    /\ pc = "rebuttal_prompt"
    /\ rebuttals = 1
    /\ LastCall.agent = "con_agent"
    /\ MetaPrompt(LastCall) = RebuttalPrompt
    /\ Len(ParseEntries(RelatedText(LastCall))) = 5

(***************************************************************************)
(* C3: the transcript is append-only.  Every step leaves the entries it    *)
(* found in place and adds at most one entry, at the end; the export adds  *)
(* none, whether it succeeds or fails.                                     *)
(***************************************************************************)
C3_AppendOnly ==
    [][/\ Len(messages') \in {Len(messages), Len(messages) + 1}
       /\ SubSeq(messages', 1, Len(messages)) = messages
       /\ pc = "save" => messages' = messages]_vars

C3_Witness ==
    /\ pc = "crashed"
    /\ raised.error = "OSError"
    /\ Len(messages) = 9

(***************************************************************************)
(* C4: a failed participant call appends nothing and keeps every entry;    *)
(* when the call that fails is Con's, the transcript still ends with Pro's *)
(* entry of that round and holds no Con entry for the round.               *)
(***************************************************************************)
C4_FailedCallAppendsNothing ==
    [][Fails =>
         /\ messages' = messages
         /\ pc \in ConTurns =>
               /\ IsProEntry(Last(messages'))
               /\ Len(SelectSeq(messages', IsProEntry))
                    = Len(SelectSeq(messages', IsConEntry)) + 1]_vars

C4_Witness ==
    /\ raised = [at |-> "con_rebuttal", error |-> "OpenAIError"]
    /\ IsProEntry(Last(messages))
    /\ Len(SelectSeq(messages, IsConEntry)) = 1

(***************************************************************************)
(* C5: after a participant call raised, the controller is still at the     *)
(* statement of the failed turn (from where the same instruction could be  *)
(* retried); it has not moved anywhere else.                               *)
(***************************************************************************)
C5_StaysAtFailedTurn ==
    (raised.error = "OpenAIError" /\ raised.at \in ProTurns \cup ConTurns) =>
        pc = raised.at

(***************************************************************************)
(* C6: when the quit sentinel is given at the first moderator prompt, the  *)
(* controller goes to Closing with the introduction as the only entry (the *)
(* sentinel is not appended), no opening or rebuttal call is ever made,    *)
(* and the transcript that is finalized and exported is the introduction,  *)
(* the closing request, Pro's and then Con's closing statement.            *)
(***************************************************************************)
C6_QuitAtFirstPrompt ==
    topics = 0 =>
        /\ rebuttals = 0
        /\ \A i \in DOMAIN calls :
              MetaPrompt(calls[i]) \notin {OpeningPrompt, RebuttalPrompt}
        /\ pc = "closing" =>
              /\ Len(messages) = 1
              /\ moderation \in {<<"q">>, <<"Q">>}
        /\ pc \in {"save", "done"} =>
              /\ [i \in DOMAIN messages |-> messages[i].agent]
                    = <<"moderator", "moderator", "pro_agent", "con_agent">>
              /\ messages[2].message = ClosingRequest
              /\ Len(SelectSeq(calls,
                               LAMBDA r : MetaPrompt(r) = ClosingPrompt)) = 2
        /\ pc = "done" => ParseEntries(file) = ShownEntries(messages)

C6_Witness ==
    /\ pc = "done"
    /\ topics = 0
    /\ Len(messages) = 4
    /\ Len(ParseEntries(file)) = 4

(***************************************************************************)
(* C7: at the moderator prompt the instructions "q" and "Q" lead to        *)
(* Closing and append nothing and call nobody; any other instruction is    *)
(* appended as the moderator's entry and leads to Pro's turn, whose result *)
(* is appended right after that moderator entry.                           *)
(***************************************************************************)
C7_ModeratorPrompt ==
    [][/\ pc = "moderator_prompt" =>
             /\ calls' = calls
             /\ IF moderation' \in {<<"q">>, <<"Q">>}
                THEN pc' = "closing" /\ messages' = messages
                ELSE /\ pc' = "pro_opening"
                     /\ messages' = Append(messages,
                            [timestamp |-> now, agent |-> "moderator",
                             message |-> moderation'])
       /\ (pc = "pro_opening" /\ ~Fails) =>
             /\ Last(messages).agent = "moderator"
             /\ Last(messages).message = moderation
             /\ Len(messages') = Len(messages) + 1
             /\ SubSeq(messages', 1, Len(messages)) = messages
             /\ Last(messages').agent = "pro_agent"]_vars

C7_Witness ==
    /\ pc = "closing"
    /\ moderation = <<"Q">>
    /\ topics = 2
    /\ Len(SelectSeq(messages, LAMBDA e : e.agent = "moderator")) = 3

(***************************************************************************)
(* C8 as stated: in the first round of a topic the instruction passed to   *)
(* Pro is the text the operator just entered at the moderator prompt.      *)
(***************************************************************************)
C8_InstructionIsModeratorText ==
    (pc = "con_opening" /\ calls # <<>>) => MetaPrompt(LastCall) = moderation

(***************************************************************************)
(* C8 amended: in the first round of a topic the instruction passed to Pro *)
(* and to Con is the fixed string "Make your opening argument to the       *)
(* moderator's prompt."; the text the operator entered reaches Pro as the  *)
(* last entry of the context.  In every rebuttal round the instruction is  *)
(* the fixed string "Rebuttal.".                                           *)
(***************************************************************************)
C8_FixedInstructions ==
    [][(pc \in {"pro_opening", "con_opening", "pro_rebuttal", "con_rebuttal"}
          /\ calls' # calls) =>
         /\ calls' = Append(calls, Last(calls'))
         /\ Last(calls').agent =
               (IF pc \in ProTurns THEN "pro_agent" ELSE "con_agent")
         /\ MetaPrompt(Last(calls')) =
               (IF pc \in {"pro_opening", "con_opening"}
                THEN <<"Make your opening argument to the moderator's prompt.">>
                ELSE <<"Rebuttal.">>)
         /\ pc = "pro_opening" =>
               LET shown == ParseEntries(RelatedText(Last(calls')))
               IN /\ Last(shown).side = "Moderator"
                  /\ Last(shown).message = moderation]_vars

C8_Witness ==
    /\ pc = "rebuttal_prompt"
    /\ topics = 1
    /\ rebuttals = 1
    /\ MetaPrompt(LastCall) = RebuttalPrompt
    /\ MetaPrompt(calls[Len(calls) - 2]) = OpeningPrompt

(***************************************************************************)
(* C9: at the rebuttal prompt no answer appends an entry or calls anyone;  *)
(* "n" and "N" lead back to the moderator prompt; "y" starts one rebuttal  *)
(* round, in which Pro is called once with "Rebuttal." and its result is   *)
(* appended, then Con likewise, and the controller is at the rebuttal      *)
(* prompt again.                                                           *)
(***************************************************************************)
RebuttalTurn(at, a, next) ==
    (pc = at /\ ~Fails) =>
        /\ pc' = next
        /\ calls' = Append(calls, Last(calls'))
        /\ Last(calls').agent = a
        /\ MetaPrompt(Last(calls')) = <<"Rebuttal.">>
        /\ Len(responses'[a]) = Len(responses[a]) + 1
        /\ messages' = Append(messages,
              [timestamp |-> now, agent |-> a,
               message |-> IndentParagraphs(Last(responses'[a]))])

C9_RebuttalDecision ==
    [][/\ pc = "rebuttal_prompt" =>
             /\ messages' = messages
             /\ calls' = calls
             /\ moderation' \in {<<"n">>, <<"N">>} => pc' = "moderator_prompt"
             /\ moderation' = <<"y">> => pc' = "pro_rebuttal"
       /\ RebuttalTurn("pro_rebuttal", "pro_agent", "con_rebuttal")
       /\ RebuttalTurn("con_rebuttal", "con_agent", "rebuttal_prompt")]_vars

C9_Witness ==
    /\ pc = "rebuttal_prompt"
    /\ moderation = <<"y">>
    /\ rebuttals = 1
    /\ Last(messages).agent = "con_agent"
    /\ Last(calls).agent = "con_agent"

(***************************************************************************)
(* C10: a finalized transcript ends with the moderator's closing request,  *)
(* Pro's closing statement and Con's closing statement, in that order; the *)
(* request appears once, and each debater was called exactly once with     *)
(* "Closing statement.", Pro before Con, as the last two calls.            *)
(***************************************************************************)
C10_ClosingEntries ==
    pc \in {"save", "done"} =>
        LET n == Len(messages)
            c == Len(calls)
        IN /\ n >= 4
           /\ messages[n - 2].agent = "moderator"
           /\ messages[n - 2].message = ClosingRequest
           /\ messages[n - 1].agent = "pro_agent"
           /\ messages[n - 1].message =
                 IndentParagraphs(Last(responses["pro_agent"]))
           /\ messages[n].agent = "con_agent"
           /\ messages[n].message =
                 IndentParagraphs(Last(responses["con_agent"]))
           /\ Cardinality({i \in 1 .. n :
                              messages[i].message = ClosingRequest}) = 1
           /\ {i \in 1 .. c : MetaPrompt(calls[i]) = <<"Closing statement.">>}
                 = {c - 1, c}
           /\ calls[c - 1].agent = "pro_agent"
           /\ calls[c].agent = "con_agent"

C10_Witness ==
    /\ pc = "done"
    /\ topics = 1
    /\ rebuttals = 1
    /\ Len(messages) = 9

(***************************************************************************)
(* C11: Finalized is terminal and is the only state that exports.  The     *)
(* file is written only by the export statement, which runs once, after    *)
(* the closing request and both closing statements are in the transcript;  *)
(* what it writes is the final render of the whole transcript (every entry *)
(* in order, then the end marker); after it no step is taken, so nothing   *)
(* is appended and nobody is called.                                       *)
(***************************************************************************)
C11_ExportOnceAtTheEnd ==
    [][/\ pc # "done"
       /\ file' # file => pc = "save"
       /\ pc' = "done" =>
             /\ pc = "save"
             /\ file = NoFile
             /\ messages' = messages
             /\ calls' = calls
             /\ file' = print_transcript(messages, topic, "pro_agent",
                                         "con_agent", TRUE)
             /\ ParseEntries(file') = ShownEntries(messages)
             /\ Last(file') = EndMarker
             /\ Len(messages) >= 4
             /\ messages[Len(messages) - 2].message = ClosingRequest
             /\ messages[Len(messages) - 1].agent = "pro_agent"
             /\ Last(messages).agent = "con_agent"]_vars

C11_Witness ==
    /\ pc = "done"
    /\ Last(file) = EndMarker
    /\ Len(ParseEntries(file)) = 9
    /\ Len(calls) = 8

(***************************************************************************)
(* C13: the render of the transcript is the banner, with the topic and the *)
(* line "Pro: <pro name>  |  Con: <con name>", followed by one block per   *)
(* entry in append order: read back, the blocks are exactly the entries    *)
(* e1, ..., en (time, speaker name, role and text), none dropped,          *)
(* duplicated or reordered, and nothing else follows the last block but    *)
(* the closing rule and the end marker of the export.  This holds of every *)
(* render the program makes: the context of each debate turn's call and    *)
(* the exported file.                                                      *)
(***************************************************************************)
RenderedNow == print_transcript(messages, topic, "pro_agent", "con_agent", FALSE)

BannerText ==
    <<"[TRANSCRIPT OF DEBATE]\n\n", EQ40, "\n", "Topic: ">> \o topic \o
    <<"\n", "Pro: ", agent["pro_agent"].name, "  |  Con: ",
      agent["con_agent"].name, "\n", EQ40, "\n\n">>

\* The number of tokens of the block of an entry.
BlockLen(entry) == 7 + Len(entry.message) + 3

RECURSIVE SumBlockLen(_)
SumBlockLen(msgs) ==
    IF msgs = <<>> THEN 0 ELSE BlockLen(Head(msgs)) + SumBlockLen(Tail(msgs))

\* This step issues the call of a debate turn: the transcript is rendered
\* for its context.
RendersContext ==
    calls' # calls /\ MetaPrompt(Last(calls')) \in DebatePrompts

ContextOfStep == RelatedText(Last(calls'))

\* This step exports the transcript.
Exports == pc = "save" /\ pc' = "done"

\* `rendered` lists the entries of the transcript, with `closing` more tokens
\* after the last block.
ListsEntries(rendered, closing) ==
    LET shown == ParseEntries(rendered)
    IN /\ SubSeq(rendered, 1, Len(BannerText)) = BannerText
       /\ Len(rendered) = Len(BannerText) + SumBlockLen(messages) + closing
       /\ Len(shown) = Len(messages)
       /\ \A i \in DOMAIN messages :
             /\ shown[i].time = Strftime(messages[i].timestamp)
             /\ shown[i].message = messages[i].message
             /\ shown[i].name = agent[messages[i].agent].name
             /\ shown[i].side = agent[messages[i].agent].side

C13_RenderInAppendOrder ==
    [][/\ RendersContext => ListsEntries(ContextOfStep, 0)
       /\ Exports => ListsEntries(file', 3)]_vars

C13_Witness ==
    /\ Len(calls) >= 3
    /\ MetaPrompt(LastCall) \in DebatePrompts
    /\ LET shown == ParseEntries(RelatedText(LastCall))
       IN /\ Len(shown) = 4
          /\ [i \in 1 .. 4 |-> shown[i].side]
                = <<"Moderator", "Moderator", "Pro", "Con">>
          /\ shown[3].message = <<"a", NL, TAB, "b">>
          /\ shown[4].message = <<"a">>
          /\ shown[2].message = <<"y">>

(***************************************************************************)
(* C14: the end-of-debate marker is rendered if and only if `final` is     *)
(* set.  No context passed to a participant holds the marker: the context  *)
(* of a debate turn ends with the divider of the last entry, the context   *)
(* of a setup call is empty.  The exported text holds the marker once, as  *)
(* its last token, right after the divider of the last entry and the       *)
(* closing rule.                                                           *)
(***************************************************************************)
Occurrences(text, tok) == Cardinality({i \in DOMAIN text : text[i] = tok})

EndsWith(text, tail) ==
    /\ Len(text) >= Len(tail)
    /\ SubSeq(text, Len(text) - Len(tail) + 1, Len(text)) = tail

C14_MarkerIffFinal ==
    [][/\ RendersContext =>
             /\ Occurrences(ContextOfStep, EndMarker) = 0
             /\ EndsWith(ContextOfStep, Last(messages).message \o
                   <<"\n", DASH40, "\n\n">>)
       /\ (calls' # calls /\ ~RendersContext) => ContextOfStep = <<>>
       /\ Exports =>
             /\ Occurrences(file', EndMarker) = 1
             /\ EndsWith(file', Last(messages).message \o
                   <<"\n", DASH40, "\n\n", EQ40, "\n\n", EndMarker>>)]_vars

C14_Witness ==
    /\ pc = "done"
    /\ topics = 1
    /\ Occurrences(file, EndMarker) = 1
    /\ Occurrences(RelatedText(LastCall), EndMarker) = 0
    /\ Occurrences(RelatedText(LastCall), DASH40) = 8

(***************************************************************************)
(* C15: print_last_message gives the empty text for the empty transcript;  *)
(* for any other transcript it gives exactly one entry block, the one of   *)
(* the most recently appended entry: its time, speaker name, role and      *)
(* text, closed by a blank line.  This holds after every append, and it is *)
(* what a debate turn prints.                                              *)
(***************************************************************************)
C15_RenderLast ==
    [][/\ messages = <<>> => print_last_message(messages) = <<>>
       /\ messages' # messages =>
             LET out == print_last_message(messages')
                 last == Last(messages')
             IN /\ Len(out) = 8 + Len(last.message)
                /\ SubSeq(out, 1, 7) =
                      <<"[", Strftime(last.timestamp), "] ",
                        agent[last.agent].name, " (",
                        agent[last.agent].side, "):\n\t">>
                /\ SubSeq(out, 8, Len(out) - 1) = last.message
                /\ Last(out) = "\n\n"
                /\ Occurrences(out, "[") = 1
                /\ Occurrences(out, "):\n\t") = 1
                /\ calls' # calls => stdout' = out]_vars

C15_Witness ==
    /\ Len(messages) = 5
    /\ stdout = print_last_message(messages)
    /\ stdout[6] = "Pro"
    /\ SubSeq(stdout, 8, Len(stdout) - 1) = <<"a", NL, TAB, "b">>
    /\ messages[3].message = <<"a">>

(***************************************************************************)
(* C16 as stated: the text stored in the transcript for a debater's turn   *)
(* is the raw completion text of that call, not its indented variant.      *)
(***************************************************************************)
EntriesOf(a) == SelectSeq(messages, LAMBDA e : e.agent = a)

\* The k-th transcript entry of debater `a` comes from its (k+1)-th call:
\* the first call is the one made during setup.
C16_StoredTextIsRaw ==
    \A a \in {"pro_agent", "con_agent"} :
        \A k \in DOMAIN EntriesOf(a) :
            EntriesOf(a)[k].message = responses[a][k + 1]

(***************************************************************************)
(* C16 amended: the debate turns call ask with the paragraph indentation   *)
(* on, and what they store in the transcript is the text ask returns: the  *)
(* completion text with every line break replaced by line break + tab.     *)
(* That indented text is what the context of every later call shows; the   *)
(* raw completion text is kept in the participant's responses only.        *)
(* Every debate turn that returns appends the indented text of the record  *)
(* it adds to the responses, and every context shows the stored texts.     *)
(***************************************************************************)
\* The entry `stored` holds the indented text of the record `raw` of `a`.
StoresIndented(a, raw, stored) ==
    /\ stored.agent = a
    /\ stored.message = IndentParagraphs(raw)
    /\ Len(stored.message) = Len(raw) + Breaks(raw)

\* `rendered` shows the texts of the transcript as they are stored.
ShowsStoredTexts(rendered) ==
    LET shown == ParseEntries(rendered)
    IN /\ Len(shown) = Len(messages)
       /\ \A i \in DOMAIN shown :
             /\ shown[i].message = messages[i].message
             /\ Occurrences(shown[i].message, TAB) =
                   Occurrences(shown[i].message, NL)

C16_StoredTextIsIndented ==
    [][/\ (RendersContext /\ ~Fails) =>
             /\ Len(messages') = Len(messages) + 1
             /\ \A a \in {"pro_agent", "con_agent"} :
                   a = Last(calls').agent =>
                      /\ Len(responses'[a]) = Len(responses[a]) + 1
                      /\ Len(EntriesOf(a)) + 2 = Len(responses'[a])
                      /\ StoresIndented(a, Last(responses'[a]), Last(messages'))
       /\ RendersContext => ShowsStoredTexts(ContextOfStep)]_vars

C16_Witness ==
    /\ Len(EntriesOf("pro_agent")) = 2
    /\ responses["pro_agent"][2] = <<"a", NL, "b">>
    /\ EntriesOf("pro_agent")[1].message = <<"a", NL, TAB, "b">>
    /\ LastCall.agent = "con_agent"
    /\ ParseEntries(RelatedText(LastCall))[3].message = <<"a", NL, TAB, "b">>

(***************************************************************************)
(* C17: an invalid configuration never starts a debate.  When the debater  *)
(* in the Pro slot was constructed with a stance other than Pro, or the    *)
(* one in the Con slot with a stance other than Con, construction or setup *)
(* fails: no participant is called and no entry is appended.               *)
(***************************************************************************)
C17_InvalidConfigNeverStarts ==
    (agent["pro_agent"].side # "Pro" \/ agent["con_agent"].side # "Con") =>
        /\ calls = <<>>
        /\ messages = <<>>
        /\ pc \in {"setup_pro", "crashed"}

(***************************************************************************)
(* C18: the two setup calls append nothing.  The transcript is empty until *)
(* the introduction is appended, also when a setup call fails; in every    *)
(* state with a non-empty transcript the first entry is the moderator's    *)
(* introduction, the text typed at the introduction prompt, and the        *)
(* speaker of every entry is the moderator, Pro or Con of the session.     *)
(***************************************************************************)
C18_SetupAppendsNothing ==
    /\ pc \in {"setup_pro", "setup_con", "introduction"} => messages = <<>>
    /\ raised.at \in {"setup_pro", "setup_con"} => messages = <<>>
    /\ pc = "introduction" =>
          /\ Len(calls) = 2
          /\ Len(responses["pro_agent"]) = 1
          /\ Len(responses["con_agent"]) = 1
    /\ messages # <<>> =>
          /\ messages[1].agent = "moderator"
          /\ agent[messages[1].agent].side = "Moderator"
          /\ messages[1].timestamp = 0
          /\ messages[1].message \in Inputs
          /\ (Len(messages) = 1 /\ pc = "moderator_prompt") =>
                messages[1].message = moderation
    /\ \A i \in DOMAIN messages :
          /\ messages[i].agent \in {"moderator", "pro_agent", "con_agent"}
          /\ agent[messages[i].agent].side \in {"Moderator", "Pro", "Con"}

C18_Witness ==
    /\ pc = "moderator_prompt"
    /\ Len(messages) = 1
    /\ Len(calls) = 2
    /\ messages[1].message = <<"N">>
    /\ responses["pro_agent"] = << <<"a", NL, "b">> >>

(***************************************************************************)
(* C19: a successful ask adds exactly one record to the responses of the   *)
(* participant asked and to nobody else's; a failed ask adds none; no step *)
(* removes a record or changes a participant's directives, name, persona,  *)
(* topic or side.  Whenever the controller waits for the operator, each    *)
(* debater has one record for the setup call plus one per transcript entry *)
(* of its own, and the moderator has none.                                 *)
(***************************************************************************)
WaitingForOperator ==
    pc \in {"introduction", "moderator_prompt", "rebuttal_prompt"}

RecordsMatchEntries ==
    /\ \A a \in {"pro_agent", "con_agent"} :
          Len(responses[a]) = 1 + Len(EntriesOf(a))
    /\ responses["moderator"] = <<>>

C19_CallHistory ==
    [][/\ agent' = agent
       /\ \A a \in Agents :
             /\ Len(responses'[a]) >= Len(responses[a])
             /\ SubSeq(responses'[a], 1, Len(responses[a])) = responses[a]
       /\ Fails => responses' = responses
       /\ calls' = calls => responses' = responses
       /\ (calls' # calls /\ ~Fails) =>
             \A a \in Agents :
                 Len(responses'[a]) =
                     Len(responses[a]) + (IF a = Last(calls').agent THEN 1 ELSE 0)
       /\ WaitingForOperator' => RecordsMatchEntries']_vars

C19_Witness ==
    /\ pc = "rebuttal_prompt"
    /\ rebuttals = 1
    /\ Len(responses["pro_agent"]) = 3
    /\ Len(responses["con_agent"]) = 3
    /\ Len(EntriesOf("con_agent")) = 2
    /\ responses["moderator"] = <<>>

(***************************************************************************)
(* C20 as stated: for every non-empty transcript the text returned by      *)
(* print_last_message equals the block that print_transcript emits for the *)
(* last entry, divider included.                                           *)
(***************************************************************************)
\* The block print_transcript emits for the last entry: the end of the render.
LastBlockOf(rendered, entry) ==
    SubSeq(rendered, Len(rendered) - BlockLen(entry) + 1, Len(rendered))

LastRenderedBlock == LastBlockOf(RenderedNow, Last(messages))

\* `out` is `block` with a blank line in place of the line break and divider.
BlockWithoutDivider(block, out) ==
    /\ SubSeq(block, Len(block) - 2, Len(block)) = <<"\n", DASH40, "\n\n">>
    /\ out = SubSeq(block, 1, Len(block) - 3) \o <<"\n\n">>
    /\ Occurrences(out, DASH40) = 0
    /\ Occurrences(block, DASH40) = 1

C20_LastIsRenderedBlock ==
    messages # <<>> => print_last_message(messages) = LastRenderedBlock

(***************************************************************************)
(* C20 amended: for every non-empty transcript the text returned by        *)
(* print_last_message equals the block that print_transcript emits for the *)
(* last entry up to the end of the message text (same time, speaker, role  *)
(* and text line), followed by a blank line in place of the line break and *)
(* the divider line: print_last_message emits no divider.  This holds      *)
(* after every append.                                                     *)
(***************************************************************************)
C20_LastIsBlockWithoutDivider ==
    [][messages' # messages =>
          \A rendered \in {RenderedNow'} :
              \A block \in {LastBlockOf(rendered, Last(messages'))} :
                  BlockWithoutDivider(block, print_last_message(messages'))]_vars

C20_Witness ==
    /\ Len(messages) = 4
    /\ stdout = print_last_message(messages)
    /\ stdout[6] = "Con"
    /\ Len(LastRenderedBlock) = Len(stdout) + 2
    /\ SubSeq(stdout, 8, Len(stdout) - 1) = <<"a", NL, TAB, "b">>

(***************************************************************************)
(* C21: at the rebuttal prompt the answers "n" and "N" are the only ones   *)
(* that leave the rebuttal loop, and they lead to the moderator prompt.    *)
(* Every other answer, the empty one and the quit sentinel "q" included,   *)
(* starts a rebuttal round: Pro's turn, then Con's, each appending its     *)
(* entry when its call returns, and back to the rebuttal prompt.  Closing  *)
(* is entered from the moderator prompt on "q" or "Q" only, never from the *)
(* rebuttal prompt.                                                        *)
(***************************************************************************)
LeavesLoop == {<<"n">>, <<"N">>}

C21_OnlyNLeavesRebuttals ==
    [][/\ pc = "rebuttal_prompt" =>
             /\ moderation' \in LeavesLoop <=> pc' = "moderator_prompt"
             /\ moderation' \notin LeavesLoop <=> pc' = "pro_rebuttal"
             /\ moderation' \notin LeavesLoop => rebuttals' = rebuttals + 1
             /\ pc' \notin {"closing", "pro_closing", "save", "done"}
       /\ (pc = "pro_rebuttal" /\ ~Fails) =>
             /\ moderation \notin LeavesLoop
             /\ pc' = "con_rebuttal"
             /\ Len(messages') = Len(messages) + 1
             /\ Last(messages').agent = "pro_agent"
       /\ (pc = "con_rebuttal" /\ ~Fails) =>
             /\ pc' = "rebuttal_prompt"
             /\ Len(messages') = Len(messages) + 1
             /\ Last(messages).agent = "pro_agent"
             /\ Last(messages').agent = "con_agent"
       /\ pc' \in {"pro_rebuttal", "con_rebuttal"} =>
             pc \in {"rebuttal_prompt", "pro_rebuttal"}
       /\ (pc' = "closing" /\ pc # "closing") =>
             /\ pc = "moderator_prompt"
             /\ moderation' \in {<<"q">>, <<"Q">>}]_vars

C21_Witness ==
    /\ pc = "rebuttal_prompt"
    /\ moderation = <<"q">>
    /\ rebuttals = 1
    /\ Len(messages) = 6
    /\ messages[5].agent = "pro_agent"
    /\ messages[6].agent = "con_agent"
    /\ MetaPrompt(calls[Len(calls) - 1]) = RebuttalPrompt
    /\ MetaPrompt(Last(calls)) = RebuttalPrompt

(***************************************************************************)
(* C22 as stated: when every completion call returns and the operator in   *)
(* time answers "n" at a rebuttal prompt and "q" at the moderator prompt,  *)
(* the script reaches Finalized and the transcript is exported; Closing is *)
(* entered by the quit sentinel at the moderator prompt only, and the file *)
(* is written only after it.                                               *)
(***************************************************************************)
QuitSentinel == {<<"q">>, <<"Q">>}

ClosingStates == {"closing", "pro_closing", "con_closing", "save", "done"}

Finalized ==
    /\ pc = "done"
    /\ file = print_transcript(messages, topic, "pro_agent", "con_agent", TRUE)

\* Closing is entered, and the file written, only after the quit sentinel.
OnlyTheSentinelEnds ==
    /\ pc \in ClosingStates => moderation \in QuitSentinel
    /\ file # NoFile => moderation \in QuitSentinel
    /\ moderation \notin QuitSentinel => raised = NoError

CallsOf(a, prompt) ==
    Cardinality({i \in DOMAIN calls :
                    calls[i].agent = a /\ MetaPrompt(calls[i]) = prompt})

C23_EntryCounts ==
    (pc \in {"save", "done"}) =>
        LET T == CallsOf("pro_agent", OpeningPrompt)
            R == CallsOf("pro_agent", RebuttalPrompt)
            byPro == Len(EntriesOf("pro_agent"))
            byCon == Len(EntriesOf("con_agent"))
            byModerator == Len(EntriesOf("moderator"))
        IN /\ T = topics
           /\ R = rebuttals
           /\ CallsOf("con_agent", OpeningPrompt) = T
           /\ CallsOf("con_agent", RebuttalPrompt) = R
           /\ Len(messages) = 1 + 3 * T + 2 * R + 3
           /\ byPro = T + R + 1
           /\ byCon = T + R + 1
           /\ byModerator = T + 2
           /\ byPro + byCon + byModerator = Len(messages)

C23_Witness ==
    /\ pc = "done"
    /\ CallsOf("pro_agent", OpeningPrompt) = 1
    /\ CallsOf("pro_agent", RebuttalPrompt) = 1
    /\ Len(EntriesOf("pro_agent")) = 3
    /\ Len(EntriesOf("con_agent")) = 3
    /\ Len(EntriesOf("moderator")) = 3
    /\ file = print_transcript(messages, topic, "pro_agent", "con_agent", TRUE)

====
